---- MODULE Spec2Model ----
(***************************************************************************)
(* topbid: OrderBook (src/src/topbid/orderbook.py) driven by the           *)
(* RepeatEvery timer thread (src/src/topbid/scheduler.py).                 *)
(*                                                                         *)
(* The caller thread runs add / delete / start / stop; every RepeatEvery   *)
(* thread runs  while runable: sleep; try: _update() except: log.          *)
(* A step of a timer thread runs from one point where the thread blocks or *)
(* ends an iteration of the per-response loop to the next: from the end of *)
(* the interval sleep to the dispatch of the batch fetch, from the return  *)
(* of the fetch through the first iteration of the loop, one further       *)
(* iteration.  The test of the while condition belongs to the step that    *)
(* ends _update.  Caller operations are short dictionary updates and are   *)
(* taken as one step each.                                                 *)
(***************************************************************************)
EXTENDS Integers, Sequences, FiniteSets, TLC

\* RepeatEvery threads a behaviour can hold: start() is called at most
\* MaxThreads times where the scheduler is studied (one exchange tracked),
\* and at most MaxStarts times where the store is (two exchanges tracked).
MaxThreads == 2
MaxStarts == 1
MaxLookups == 2

Threads == 1..MaxThreads

\* thread = None
NoThread == 0

-----------------------------------------------------------------------------
(* Values                                                                  *)

\* Python None, a JSON string "n" and the Python float n.0, kept apart so that
\* float() is visible in what gets stored.
None == [t |-> "none", v |-> 0]
Str(n) == [t |-> "str", v |-> n]
Float(n) == [t |-> "float", v |-> n]

\* float(x) for a numeric string or a float
float(x) == [t |-> "float", v |-> x.v]

\* (None, None)
NoneNone == <<None, None>>

\* A JSON value that is null or a list
JNull == [isNone |-> TRUE, items |-> <<>>]
JList(items) == [isNone |-> FALSE, items |-> items]

-----------------------------------------------------------------------------
(* Keys                                                                    *)

\* Exchanges get_orderbook_url knows
Supported == {"binance", "bybit", "gateio", "kraken", "kucoin", "okx", "okex"}

\* Exchange names a caller passes, in the spelling the caller uses
CallerNames == {"kucoin", "KuCoin", "okx", "ftx"}

\* The pair a caller passes
CallerPairs == {"VAI/USDT"}

\* str.lower() on the exchange names used here
Lower(e) == IF e = "KuCoin" THEN "kucoin" ELSE e

\* _id = f"{exchange_name.lower()}-{pair}", kept as the two parts that
\* _id.split("-") gives back (no name used here contains "-")
MkId(e, p) == <<Lower(e), p>>

NoId == <<"", "">>

\* The sets of exchanges one caller works with: two supported ones, or a
\* supported one and one get_orderbook_url rejects.
Portfolios == {{"kucoin", "okx"}, {"kucoin", "ftx"}}

VARIABLES
  portfolio,        \* the exchanges this caller uses (fixed by Init)
  budget,           \* the calls of start() this caller still makes
  response,         \* the response the for loop is given (where Init fixes one)
  orderbook_bids,   \* self.orderbook_bids: id -> (price, volume)
  bids_order,       \* insertion order of the keys of self.orderbook_bids
  orderbook_asks,   \* self.orderbook_asks: id -> (price, volume)
  thread,           \* self.thread: the RepeatEvery start() created last
  running,          \* self.running
  runable,          \* RepeatEvery.runable of each thread
  pc,               \* where each RepeatEvery thread is
  ids,              \* _update's local ids of each thread
  idx,              \* position of _update's for loop in zip(ids, responses)
  urls,             \* _update's local urls of each thread: response i is fetched from urls[i]
  lastCall,         \* history: the last of start() / stop() the caller made
  deleted,          \* history: keys deleted and not added since
  stopped,          \* history: stop() returned and no add() since
  fresh,            \* history: keys added new, no successful response processed since
  last,             \* history: the step taken last
  lookups           \* history: calls of _populate_symbol_mappings per key (where Init counts them)

vars == <<portfolio, budget, response, orderbook_bids, bids_order, orderbook_asks, thread, running,
          runable, pc, ids, idx, urls, lastCall, deleted, stopped, fresh, last, lookups>>

AllIds == {MkId(e, p) : e \in CallerNames, p \in CallerPairs}

-----------------------------------------------------------------------------
(* Python dict: assignment, pop, and the insertion order keys() follows    *)

EmptyDict == << >>

DictSet(d, k, v) == [x \in (DOMAIN d) \cup {k} |-> IF x = k THEN v ELSE d[x]]

DictPop(d, k) == [x \in (DOMAIN d) \ {k} |-> d[x]]

InSeq(s, k) == \E i \in 1..Len(s) : s[i] = k

OrderSet(o, k) == IF InSeq(o, k) THEN o ELSE Append(o, k)

OrderPop(o, k) == SelectSeq(o, LAMBDA x : x # k)

-----------------------------------------------------------------------------
(* Responses of request_boost.boosted_requests, one per url                *)

OkxKeys == {"code", "msg", "data", "ts"}
KucoinKeys == {"data", "code"}
BinanceKeys == {"bids", "asks", "lastUpdateId"}
BybitKeys == {"result", "retCode", "retMsg", "time"}
GateioKeys == {"bids", "asks", "current", "update"}
KrakenKeys == {"result", "error"}

\* Mutant: the kucoin test is made before the okx test
Signatures_KucoinFirst ==
  << [name |-> "kucoin", keys |-> KucoinKeys],
     [name |-> "okx", keys |-> OkxKeys],
     [name |-> "binance", keys |-> BinanceKeys],
     [name |-> "bybit", keys |-> BybitKeys],
     [name |-> "gateio", keys |-> GateioKeys],
     [name |-> "kraken", keys |-> KrakenKeys] >>

\* The tests of _update, in the order the code makes them
Signatures ==
  << [name |-> "okx", keys |-> OkxKeys],
     [name |-> "kucoin", keys |-> KucoinKeys],
     [name |-> "binance", keys |-> BinanceKeys],
     [name |-> "bybit", keys |-> BybitKeys],
     [name |-> "gateio", keys |-> GateioKeys],
     [name |-> "kraken", keys |-> KrakenKeys] >>

\* res is None
NullRes == [null |-> TRUE, keys |-> {}, code |-> "0", retCode |-> 0,
            bids |-> JNull, asks |-> JNull]

\* A parsed body: its top-level keys, its code / retCode where it has one, and
\* the bid and ask lists at the place the matching branch reads them
\* (data[0], data, the body itself, result, result[first key]).
Body(ks, c, rc, b, a) == [null |-> FALSE, keys |-> ks, code |-> c, retCode |-> rc,
                          bids |-> b, asks |-> a]

BidLevels == << <<Str(1), Str(2)>>, <<Str(3), Str(4)>> >>
AskLevels == << <<Str(5), Str(6)>>, <<Str(7), Str(8)>> >>

BidLists == {JNull, JList(<< >>), JList(BidLevels)}
AskLists == {JNull, JList(<< >>), JList(AskLevels)}

KeySets == {OkxKeys, KucoinKeys, BinanceKeys, BybitKeys, GateioKeys, KrakenKeys,
            {"error_message"}, BinanceKeys \cup GateioKeys, BybitKeys \cup KrakenKeys}

Codes == {"0", "200000"}
RetCodes == {0, 10001}

\* A field the body does not have is left at its default.
Bodies == {r \in {Body(ks, c, rc, b, a) : ks \in KeySets, c \in Codes, rc \in RetCodes,
                                          b \in BidLists, a \in AskLists} :
             /\ ("code" \notin r.keys => r.code = "0")
             /\ ("retCode" \notin r.keys => r.retCode = 0)}

Responses == {NullRes} \cup Bodies

\* all(k in res for k in sig)
Matches(res, sig) == sig.keys \subseteq res.keys

\* Index of the first test of _update the body passes, 0 when it passes none
Classify(res) ==
  IF \E i \in 1..Len(Signatures) : Matches(res, Signatures[i])
  THEN CHOOSE i \in 1..Len(Signatures) :
         /\ Matches(res, Signatures[i])
         /\ \A j \in 1..(i - 1) : ~Matches(res, Signatures[j])
  ELSE 0

ClassName(res) == IF Classify(res) = 0 THEN "none" ELSE Signatures[Classify(res)].name

\* if res["code"] == "0" / "200000" / res["retCode"] == 0; the other branches
\* test no code
CodeOk(res) ==
  CASE ClassName(res) = "okx" -> res.code = "0"
    [] ClassName(res) = "kucoin" -> res.code = "200000"
    [] ClassName(res) = "bybit" -> res.retCode = 0
    [] OTHER -> TRUE

\* okx and bybit store float(...), the other branches store the element
Convert(res, x) == IF ClassName(res) \in {"okx", "bybit"} THEN float(x) ELSE x

\* lst[0][0], lst[0][1] can be evaluated
HasTop(lst) == ~lst.isNone /\ Len(lst.items) >= 1

\* Mutant: the last level of the list is taken for the best one
Top_Last(lst) == <<lst.items[Len(lst.items)][1], lst.items[Len(lst.items)][2]>>

\* (lst[0][0], lst[0][1])
Top(lst) == <<lst.items[1][1], lst.items[1][2]>>

TopOf(res, lst) == <<Convert(res, Top(lst)[1]), Convert(res, Top(lst)[2])>>

\* kucoin only: if res["data"]["bids"] is not None (tested before each of
\* the two writes)
BidGuard(res) == ClassName(res) = "kucoin" => ~res.bids.isNone

AskGuard(res) == ClassName(res) = "kucoin" => ~res.bids.isNone

Quiet(k) == [kind |-> k, force |-> FALSE, setBid |-> FALSE, bid |-> NoneNone,
             setAsk |-> FALSE, ask |-> NoneNone, raises |-> FALSE]

\* The writes of a branch whose code test passed: which of the two tables
\* it writes, with what, and whether it leaves _update by an exception (the
\* arguments of a write are evaluated before the write is made).
Extract(res) ==
  LET s == Quiet("success") IN
  IF ~BidGuard(res) THEN
    IF ~AskGuard(res) THEN s
    ELSE IF HasTop(res.asks)
         THEN [s EXCEPT !.setAsk = TRUE, !.ask = TopOf(res, res.asks)]
         ELSE [s EXCEPT !.raises = TRUE]
  ELSE IF ~HasTop(res.bids) THEN [s EXCEPT !.raises = TRUE]
  ELSE LET b == [s EXCEPT !.setBid = TRUE, !.bid = TopOf(res, res.bids)] IN
    IF ~AskGuard(res) THEN b
    ELSE IF HasTop(res.asks)
         THEN [b EXCEPT !.setAsk = TRUE, !.ask = TopOf(res, res.asks)]
         ELSE [b EXCEPT !.raises = TRUE]

\* Mutant: a code that is not the success value reinitialises the pair
Handle_ErrorResets(res) ==
  IF res.null THEN [Quiet("null") EXCEPT !.force = TRUE]
  ELSE IF Classify(res) = 0 THEN Quiet("unknown")
  ELSE IF ~CodeOk(res) THEN [Quiet("error") EXCEPT !.force = TRUE]
  ELSE Extract(res)

\* Mutant: a body that passes none of the tests raises out of _update
Handle_UnknownRaises(res) ==
  IF res.null THEN [Quiet("null") EXCEPT !.force = TRUE]
  ELSE IF Classify(res) = 0 THEN [Quiet("unknown") EXCEPT !.raises = TRUE]
  ELSE IF ~CodeOk(res) THEN Quiet("error")
  ELSE Extract(res)

\* Mutant: a body that passes none of the tests reinitialises the pair
Handle_UnknownResets(res) ==
  IF res.null THEN [Quiet("null") EXCEPT !.force = TRUE]
  ELSE IF Classify(res) = 0 THEN [Quiet("unknown") EXCEPT !.force = TRUE]
  ELSE IF ~CodeOk(res) THEN Quiet("error")
  ELSE Extract(res)

\* Mutant: the branch writes without testing the code of the response
Handle_NoCodeTest(res) ==
  IF res.null THEN [Quiet("null") EXCEPT !.force = TRUE]
  ELSE IF Classify(res) = 0 THEN Quiet("unknown")
  ELSE IF ~CodeOk(res) THEN [Extract(res) EXCEPT !.kind = "error"]
  ELSE Extract(res)

\* What one iteration of the for loop of _update does with res: kind "null"
\* (reinitialise the pair), "unknown" (warning), "error" (a code that is not
\* the success value: continue) or "success" (the writes of the branch).
Handle(res) ==
  IF res.null THEN [Quiet("null") EXCEPT !.force = TRUE]
  ELSE IF Classify(res) = 0 THEN Quiet("unknown")
  ELSE IF ~CodeOk(res) THEN Quiet("error")
  ELSE Extract(res)

\* What the loop can do with the response of one url
Outcomes == {Handle(r) : r \in Responses}

-----------------------------------------------------------------------------
(* The store                                                               *)

\* _set_bid_price_and_volume / _set_ask_price_and_volume
set_bid(d, id, entry) == DictSet(d, id, entry)

set_ask(d, id, entry) == DictSet(d, id, entry)

\* Mutant: force is ignored, a tracked pair is never reinitialised
MustInit_NoForce(id, force) ==
  id \notin DOMAIN orderbook_bids \/ id \notin DOMAIN orderbook_asks

\* Mutant: the pair is initialised whether it is tracked or not
MustInit_Always(id, force) == TRUE

\* The condition of _init_pair
MustInit(id, force) ==
  id \notin DOMAIN orderbook_bids \/ id \notin DOMAIN orderbook_asks \/ force

\* The three tables after _init_pair(_id, force)
InitPairBids(id, force) ==
  IF MustInit(id, force) THEN DictSet(orderbook_bids, id, NoneNone) ELSE orderbook_bids

InitPairOrder(id, force) ==
  IF MustInit(id, force) THEN OrderSet(bids_order, id) ELSE bids_order

InitPairAsks(id, force) ==
  IF MustInit(id, force) THEN DictSet(orderbook_asks, id, NoneNone) ELSE orderbook_asks

\* Mutant: the lookup is made on a forced initialisation too
Looks_Forced(id, force) == MustInit(id, force)

\* _init_pair calls _populate_symbol_mappings: the pair is initialised and
\* the initialisation is not forced
Looks(id, force) == MustInit(id, force) /\ ~force

\* The count of lookups after _init_pair(_id, force), for a key whose
\* lookups are counted, and the cap on that count
CountLookup(id, force) ==
  IF id \in DOMAIN lookups /\ Looks(id, force)
  THEN [lookups EXCEPT ![id] = @ + 1]
  ELSE lookups

LookupAllowed(id, force) ==
  (id \in DOMAIN lookups /\ Looks(id, force)) => lookups[id] < MaxLookups

\* dict.get(_id, (None, None))
DictGet(d, id) == IF id \in DOMAIN d THEN d[id] ELSE NoneNone

get_orderbook_top_bid(e, p) == DictGet(orderbook_bids, MkId(e, p))

get_orderbook_top_ask(e, p) == DictGet(orderbook_asks, MkId(e, p))

\* How get_orderbook_url writes the pair for each exchange it knows: the
\* separator that replaces "/" and whether the pair is upper-cased
UrlFormat(e) ==
  CASE e = "binance" -> [sep |-> "", upper |-> FALSE]
    [] e = "bybit"   -> [sep |-> "", upper |-> TRUE]
    [] e = "gateio"  -> [sep |-> "_", upper |-> FALSE]
    [] e = "kraken"  -> [sep |-> "", upper |-> FALSE]
    [] e = "kucoin"  -> [sep |-> "-", upper |-> FALSE]
    [] OTHER         -> [sep |-> "-", upper |-> TRUE]

\* The string get_orderbook_url returns, by its parts; no symbol mapping is
\* stored, so get_exchange_symbol gives the pair back
Url(e, p) == [host |-> e, pair |-> p, sep |-> UrlFormat(e).sep, upper |-> UrlFormat(e).upper]

NoUrl == [host |-> "", pair |-> "", sep |-> "", upper |-> FALSE]

\* A get_orderbook_url that falls through with an empty string
get_orderbook_url_Silent(e, p) ==
  IF e \in Supported
  THEN [raises |-> FALSE, names |-> "", url |-> Url(e, p)]
  ELSE [raises |-> FALSE, names |-> "", url |-> NoUrl]

\* get_orderbook_url(exchange_name, pair): the name is compared as given; a
\* name that is none of the known ones raises RuntimeError with the name in
\* its message
get_orderbook_url(e, p) ==
  IF e \in Supported
  THEN [raises |-> FALSE, names |-> "", url |-> Url(e, p)]
  ELSE [raises |-> TRUE, names |-> e, url |-> NoUrl]

\* _update calls get_orderbook_url with the two parts of the key
UrlOk(id) == ~get_orderbook_url(id[1], id[2]).raises

\* The key is in both tables / has a price or a volume in one of them
Tracked(id) == id \in DOMAIN orderbook_bids /\ id \in DOMAIN orderbook_asks

Populated(id) == DictGet(orderbook_bids, id) # NoneNone \/ DictGet(orderbook_asks, id) # NoneNone

\* The record of a step: the operation, the timer thread that took it
\* (NoThread for the caller), the key it was about, what kind of step it was,
\* whether it raised, and whether the key was populated before it.
Step(op, t, id, kind, raised) ==
  [op |-> op, t |-> t, id |-> id, kind |-> kind, raised |-> raised,
   had |-> (id # NoId /\ Populated(id))]

-----------------------------------------------------------------------------
(* Caller operations                                                       *)

add(e, p) ==
  LET id == MkId(e, p) IN
  /\ Lower(e) \in portfolio
  /\ orderbook_bids' = InitPairBids(id, FALSE)
  /\ bids_order' = InitPairOrder(id, FALSE)
  /\ orderbook_asks' = InitPairAsks(id, FALSE)
  /\ deleted' = deleted \ {id}
  /\ stopped' = FALSE
  /\ fresh' = IF Tracked(id) THEN fresh ELSE fresh \cup {id}
  /\ last' = Step("add", NoThread, id, IF Tracked(id) THEN "tracked" ELSE "new", FALSE)
  /\ LookupAllowed(id, FALSE)
  /\ lookups' = CountLookup(id, FALSE)
  /\ UNCHANGED <<portfolio, budget, response, thread, running, runable, pc, ids, idx, urls, lastCall>>

delete(e, p) ==
  LET id == MkId(e, p) IN
  /\ Lower(e) \in portfolio
  /\ orderbook_bids' = DictPop(orderbook_bids, id)
  /\ bids_order' = OrderPop(bids_order, id)
  /\ orderbook_asks' = DictPop(orderbook_asks, id)
  /\ deleted' = deleted \cup {id}
  /\ last' = Step("delete", NoThread, id, "", FALSE)
  /\ UNCHANGED <<lookups, portfolio, budget, response, thread, running, runable, pc, ids, idx, urls,
                 lastCall, stopped, fresh>>

\* A caller's own call of get_orderbook_url(e, p)
CallGetOrderbookUrl(e, p) ==
  LET r == get_orderbook_url(e, p) IN
  /\ Lower(e) \in portfolio
  /\ last' = Step("url", NoThread, <<e, p>>, IF r.raises THEN r.names ELSE "string", r.raises)
  /\ UNCHANGED <<lookups, portfolio, budget, response, orderbook_bids, bids_order, orderbook_asks,
                 thread, running, runable, pc, ids, idx, urls, lastCall, deleted, stopped, fresh>>

\* The thread start() creates: the next one not yet used
NewThread == CHOOSE u \in Threads : pc[u] = "unborn" /\ \A w \in 1..(u - 1) : pc[w] # "unborn"

\* start(update_every): a new RepeatEvery is created and started (runable is
\* True, so it enters its loop and sleeps), self.thread is overwritten.
start ==
  /\ budget > 0
  /\ budget' = budget - 1
  /\ thread' = NewThread
  /\ pc' = [pc EXCEPT ![NewThread] = "sleep"]
  /\ runable' = [runable EXCEPT ![NewThread] = TRUE]
  /\ running' = TRUE
  /\ lastCall' = "start"
  /\ last' = Step("start", NoThread, NoId, "", FALSE)
  /\ UNCHANGED <<lookups, portfolio, response, orderbook_bids, bids_order, orderbook_asks, ids, idx, urls,
                 deleted, stopped, fresh>>

\* RepeatEvery.stop() on self.thread
ThreadStop == IF thread # NoThread THEN [runable EXCEPT ![thread] = FALSE] ELSE runable

stop ==
  /\ running' = FALSE
  /\ runable' = ThreadStop
  /\ orderbook_bids' = EmptyDict
  /\ bids_order' = << >>
  /\ orderbook_asks' = EmptyDict
  /\ lastCall' = "stop"
  /\ stopped' = TRUE
  /\ last' = Step("stop", NoThread, NoId, "", FALSE)
  /\ UNCHANGED <<lookups, portfolio, budget, response, thread, pc, ids, idx, urls, deleted, fresh>>

-----------------------------------------------------------------------------
(* RepeatEvery.run and OrderBook._update                                   *)

\* while self.runable: where the thread goes when func has returned or raised
WhileTest(t) == IF runable[t] THEN "sleep" ELSE "dead"

\* Mutant: the exception is not caught and ends the thread
AfterRaise_Dies(t) == "dead"

\* except Exception: logger.exception(exc), and the loop goes on
AfterRaise(t) == WhileTest(t)

\* Mutant: _update does not test self.running
Skips_Missing == FALSE

\* if not self.running: return
Skips == ~running

\* Mutant: building the urls never raises
UrlRaises_Never == FALSE

\* urls.append(self.get_orderbook_url(...)) raises for one of the keys
UrlRaises == \E i \in 1..Len(bids_order) : ~UrlOk(bids_order[i])

\* The urls _update builds for a list of keys, one per key and in its order
\* (called only when none of them raises)
UrlsOf(keys) == [i \in 1..Len(keys) |-> get_orderbook_url(keys[i][1], keys[i][2]).url]

\* The key a url was built for: _id is f"{exchange}-{pair}"
KeyOfUrl(u) == <<u.host, u.pair>>

\* time.sleep returns and _update is called: the running test, the snapshot
\* of the keys, one url per key, and the batch fetch is sent.
UpdateBegin(t) ==
  /\ pc[t] = "sleep"
  /\ IF Skips
     THEN /\ pc' = [pc EXCEPT ![t] = WhileTest(t)]
          /\ UNCHANGED <<ids, idx, urls>>
          /\ last' = Step("update", t, NoId, "skip", FALSE)
     ELSE IF UrlRaises
     THEN /\ pc' = [pc EXCEPT ![t] = AfterRaise(t)]
          /\ UNCHANGED <<ids, idx, urls>>
          /\ last' = Step("update", t, NoId, "url", TRUE)
     ELSE /\ pc' = [pc EXCEPT ![t] = "fetch"]
          /\ ids' = [ids EXCEPT ![t] = bids_order]
          /\ urls' = [urls EXCEPT ![t] = UrlsOf(bids_order)]
          /\ idx' = [idx EXCEPT ![t] = 1]
          /\ last' = Step("update", t, NoId, "dispatch", FALSE)
  /\ UNCHANGED <<lookups, portfolio, budget, response, orderbook_bids, bids_order, orderbook_asks,
                 thread, running, runable, lastCall, deleted, stopped, fresh>>

\* boosted_requests raises: _update is left, RepeatEvery.run logs the exception
FetchRaises(t) ==
  /\ pc[t] = "fetch"
  /\ pc' = [pc EXCEPT ![t] = AfterRaise(t)]
  /\ ids' = [ids EXCEPT ![t] = << >>]
  /\ idx' = [idx EXCEPT ![t] = 0]
  /\ urls' = [urls EXCEPT ![t] = << >>]
  /\ last' = Step("fetch", t, NoId, "", TRUE)
  /\ UNCHANGED <<lookups, portfolio, budget, response, orderbook_bids, bids_order, orderbook_asks,
                 thread, running, runable, lastCall, deleted, stopped, fresh>>

\* boosted_requests returns for an empty list of urls: the for loop has
\* nothing to do and _update returns.
FetchEmpty(t) ==
  /\ pc[t] = "fetch"
  /\ ids[t] = << >>
  /\ pc' = [pc EXCEPT ![t] = WhileTest(t)]
  /\ idx' = [idx EXCEPT ![t] = 0]
  /\ last' = Step("fetch", t, NoId, "", FALSE)
  /\ UNCHANGED <<lookups, portfolio, budget, response, orderbook_bids, bids_order, orderbook_asks,
                 thread, running, runable, ids, urls, lastCall, deleted, stopped, fresh>>

\* Mutant: the loop takes the key at its position from the bid table as it
\* is now, not from the list made before the fetch
LoopKey_Live(t) ==
  IF idx[t] <= Len(bids_order) THEN bids_order[idx[t]] ELSE ids[t][idx[t]]

\* for _id, res in zip(ids, responses): the key the current response is
\* paired with
LoopKey(t) == ids[t][idx[t]]

\* One iteration of  for _id, res in zip(ids, responses)  with outcome o; the
\* first one follows the return of boosted_requests.
Process(t, o) ==
  LET id == LoopKey(t)
      over == o.raises \/ idx[t] = Len(ids[t])
  IN
  /\ pc[t] \in {"fetch", "for"}
  /\ ids[t] # << >>
  /\ orderbook_bids' =
       IF o.force THEN InitPairBids(id, TRUE)
       ELSE IF o.setBid THEN set_bid(orderbook_bids, id, o.bid)
       ELSE orderbook_bids
  /\ bids_order' = IF o.force \/ o.setBid THEN OrderSet(bids_order, id) ELSE bids_order
  /\ orderbook_asks' =
       IF o.force THEN InitPairAsks(id, TRUE)
       ELSE IF o.setAsk THEN set_ask(orderbook_asks, id, o.ask)
       ELSE orderbook_asks
  /\ pc' = [pc EXCEPT ![t] = IF o.raises THEN AfterRaise(t)
                            ELSE IF over THEN WhileTest(t) ELSE "for"]
  /\ ids' = [ids EXCEPT ![t] = IF over THEN << >> ELSE ids[t]]
  /\ idx' = [idx EXCEPT ![t] = IF over THEN 0 ELSE idx[t] + 1]
  /\ urls' = [urls EXCEPT ![t] = IF over THEN << >> ELSE urls[t]]
  /\ fresh' = IF o.kind = "success" THEN fresh \ {id} ELSE fresh
  /\ last' = Step("for", t, id, o.kind, o.raises)
  /\ o.force => LookupAllowed(id, TRUE)
  /\ lookups' = IF o.force THEN CountLookup(id, TRUE) ELSE lookups
  /\ UNCHANGED <<portfolio, budget, response, thread, running, runable, lastCall,
                 deleted, stopped>>

ProcessKey(t) == \E o \in Outcomes : Process(t, o)

-----------------------------------------------------------------------------

\* The state __init__ leaves, for a caller that uses the exchanges pf and
\* calls start() at most n times, with the lookups of the keys in counted
\* being counted
InitCounting(pf, n, counted) ==
  /\ lookups = [id \in counted |-> 0]
  /\ portfolio = pf
  /\ budget = n
  /\ response = NullRes
  /\ orderbook_bids = EmptyDict
  /\ bids_order = << >>
  /\ orderbook_asks = EmptyDict
  /\ thread = NoThread
  /\ running = FALSE
  /\ runable = [t \in Threads |-> TRUE]
  /\ pc = [t \in Threads |-> "unborn"]
  /\ ids = [t \in Threads |-> << >>]
  /\ urls = [t \in Threads |-> << >>]
  /\ idx = [t \in Threads |-> 0]
  /\ lastCall = "none"
  /\ deleted = {}
  /\ stopped = FALSE
  /\ fresh = {}
  /\ last = Step("init", NoThread, NoId, "", FALSE)

InitWith(pf, n) == InitCounting(pf, n, {})

Init == \E pf \in Portfolios : InitWith(pf, MaxStarts)

Caller ==
  \/ \E e \in CallerNames, p \in CallerPairs : add(e, p)
  \/ \E e \in CallerNames, p \in CallerPairs : delete(e, p)
  \/ start
  \/ stop

Timer(t) ==
  \/ UpdateBegin(t)
  \/ FetchRaises(t)
  \/ FetchEmpty(t)
  \/ ProcessKey(t)

Next == Caller \/ \E t \in Threads : Timer(t)

\* The store under one timer thread after another
Spec == Init /\ [][Next]_vars

\* The scheduler: one exchange tracked, start() called up to MaxThreads times
SchedInit == InitWith({"kucoin"}, MaxThreads)

SchedSpec == SchedInit /\ [][Next]_vars

\* Every timer thread that can take a step eventually takes one: time.sleep,
\* the fetch and the loop all return.
FairSched == SchedSpec /\ \A t \in Threads : WF_vars(Timer(t))

\* One response body through the for loop: the state after
\* add("kucoin", "VAI/USDT"), start() and the dispatch of the first fetch,
\* with the response the transport gives fixed for the behaviour.
ExtractInit ==
  /\ portfolio = {"kucoin", "okx"}
  /\ budget = 0
  /\ response \in Responses
  /\ orderbook_bids = DictSet(EmptyDict, MkId("kucoin", "VAI/USDT"), NoneNone)
  /\ bids_order = << MkId("kucoin", "VAI/USDT") >>
  /\ orderbook_asks = DictSet(EmptyDict, MkId("kucoin", "VAI/USDT"), NoneNone)
  /\ thread = 1
  /\ running = TRUE
  /\ runable = [t \in Threads |-> TRUE]
  /\ pc = [t \in Threads |-> IF t = 1 THEN "fetch" ELSE "unborn"]
  /\ ids = [t \in Threads |-> IF t = 1 THEN << MkId("kucoin", "VAI/USDT") >> ELSE << >>]
  /\ urls = [t \in Threads |-> IF t = 1 THEN << Url("kucoin", "VAI/USDT") >> ELSE << >>]
  /\ idx = [t \in Threads |-> IF t = 1 THEN 1 ELSE 0]
  /\ lastCall = "start"
  /\ deleted = {}
  /\ stopped = FALSE
  /\ fresh = {MkId("kucoin", "VAI/USDT")}
  /\ last = [op |-> "update", t |-> 1, id |-> NoId, kind |-> "dispatch",
             raised |-> FALSE, had |-> FALSE]
  /\ lookups = EmptyDict

ProcessGiven(t) == Process(t, Handle(response))

ExtractNext == \E t \in Threads : UpdateBegin(t) \/ ProcessGiven(t)

ExtractSpec == ExtractInit /\ [][ExtractNext]_vars

\* The caller alone, no timer started: pairs are added and deleted, the
\* store is stopped, and URLs are resolved
UrlInit == \E pf \in Portfolios : InitWith(pf, 0)

UrlNext ==
  \/ \E e \in CallerNames, p \in CallerPairs : add(e, p)
  \/ \E e \in CallerNames, p \in CallerPairs : delete(e, p)
  \/ stop
  \/ \E e \in CallerNames, p \in CallerPairs : CallGetOrderbookUrl(e, p)

UrlSpec == UrlInit /\ [][UrlNext]_vars

\* The lookups of one key counted, under the caller and the timer
LookupInit == InitCounting({"kucoin"}, MaxStarts, {MkId("kucoin", "VAI/USDT")})

LookupSpec == LookupInit /\ [][Next]_vars

-----------------------------------------------------------------------------
(* Claims                                                                  *)

\* C1: in every reachable state the set of keys of the bid table equals the
\* set of keys of the ask table.
C1_JoinInvariant == DOMAIN orderbook_bids = DOMAIN orderbook_asks

\* C2: a step of the for loop that handles a null response for a key leaves
\* both lookups of that key at (None, None), whatever was stored before, and
\* changes the entry of no other key.
C2_Invalidation ==
  [][(last'.op = "for" /\ last'.kind = "null") =>
       /\ DictGet(orderbook_bids', last'.id) = NoneNone
       /\ DictGet(orderbook_asks', last'.id) = NoneNone
       /\ \A k \in AllIds \ {last'.id} :
            /\ (k \in DOMAIN orderbook_bids') = (k \in DOMAIN orderbook_bids)
            /\ (k \in DOMAIN orderbook_asks') = (k \in DOMAIN orderbook_asks)
            /\ DictGet(orderbook_bids', k) = DictGet(orderbook_bids, k)
            /\ DictGet(orderbook_asks', k) = DictGet(orderbook_asks, k)]_vars

\* C2 witness: a null response has just been handled for a key that held a
\* price, and both lookups now give (None, None).
C2_Witness ==
  /\ last.op = "for" /\ last.kind = "null" /\ last.had
  /\ DictGet(orderbook_bids, last.id) = NoneNone
  /\ DictGet(orderbook_asks, last.id) = NoneNone

\* C3: from delete(E,P) until the next add(E,P) the key is in neither table
\* and both lookups give (None, None), also while a cycle that took its
\* snapshot before the delete goes on.
C3_DeletedStaysAbsent ==
  \A id \in deleted :
    /\ id \notin DOMAIN orderbook_bids
    /\ id \notin DOMAIN orderbook_asks
    /\ DictGet(orderbook_bids, id) = NoneNone
    /\ DictGet(orderbook_asks, id) = NoneNone

\* C4: from stop() until the next add both tables are empty: a cycle in
\* flight at stop() writes nothing into the store.
C4_StoppedStaysEmpty ==
  stopped => (orderbook_bids = EmptyDict /\ orderbook_asks = EmptyDict)

C6_NoThreadLeak ==
  [](lastCall = "stop" =>
       <>(lastCall # "stop" \/ \A t \in Threads : pc[t] \in {"unborn", "dead"}))

\* C7: after a cycle of thread t left _update by an exception (from the
\* fetch or from the for loop), while t is not stopped, _update is
\* eventually called by t again.
C7_NextCycleAfterRaise ==
  \A t \in Threads :
    [](( last.raised /\ last.t = t /\ last.op # "update" /\ runable[t]) =>
         <>(~runable[t] \/ (last.op = "update" /\ last.t = t)))

\* C7 witness: the for loop raised in a thread that is not stopped, and the
\* thread is back in its interval sleep.
C7_Witness ==
  /\ last.raised /\ last.op = "for"
  /\ runable[last.t] /\ pc[last.t] = "sleep"

\* C8: a key added while untracked gives (None, None) in both lookups until
\* a cycle has handled a successful response for it; null, unrecognised and
\* error-code responses leave it so.
C8_NoneUntilSuccess ==
  \A id \in fresh :
    /\ DictGet(orderbook_bids, id) = NoneNone
    /\ DictGet(orderbook_asks, id) = NoneNone

\* C8 witness: an error-code response has just been handled for a tracked
\* key that has had no successful response since it was added.
C8_Witness ==
  /\ last.op = "for" /\ last.kind = "error"
  /\ last.id \in fresh /\ Tracked(last.id)

\* C9: add on a key that is in both tables leaves the bid table and the ask
\* table as they were.
C9_AddIdempotent ==
  [][(last'.op = "add" /\ last'.kind = "tracked") =>
       (orderbook_bids' = orderbook_bids /\ orderbook_asks' = orderbook_asks)]_vars

\* C9 witness: add has just been called on a tracked key that holds a price,
\* and the price is still there.
C9_Witness ==
  /\ last.op = "add" /\ last.kind = "tracked" /\ last.had
  /\ Populated(last.id)

\* The for loop has just handled the given response, a recognised body
\* whose code test passes and whose bid and ask lists have an element 0
ExtractedCase ==
  /\ last.op = "for"
  /\ ~response.null /\ Classify(response) # 0 /\ CodeOk(response)
  /\ ~response.bids.isNone /\ Len(response.bids.items) >= 1
  /\ ~response.asks.isNone /\ Len(response.asks.items) >= 1

\* C10 as stated: after a successful recognised response the bid entry is
\* exactly (price, volume) of element 0 of the bid list and the ask entry
\* exactly (price, volume) of element 0 of the ask list.
C10_TopVerbatim ==
  ExtractedCase =>
    /\ DictGet(orderbook_bids, last.id) =
         <<response.bids.items[1][1], response.bids.items[1][2]>>
    /\ DictGet(orderbook_asks, last.id) =
         <<response.asks.items[1][1], response.asks.items[1][2]>>

\* C10 amended: the entries are (price, volume) of element 0 of the bid
\* list and of the ask list, as received for kucoin, binance, gateio and
\* kraken bodies and converted by float() for okx and bybit bodies.
C10_TopOfBook ==
  ExtractedCase =>
    LET conv(x) == IF ClassName(response) \in {"okx", "bybit"}
                   THEN [t |-> "float", v |-> x.v] ELSE x
    IN
    /\ DictGet(orderbook_bids, last.id) =
         <<conv(response.bids.items[1][1]), conv(response.bids.items[1][2])>>
    /\ DictGet(orderbook_asks, last.id) =
         <<conv(response.asks.items[1][1]), conv(response.asks.items[1][2])>>

\* C10 witness: a kucoin body with code "200000" and two levels on each
\* side has been handled; the entries are the first level of each side.
C10_Witness ==
  /\ ExtractedCase /\ ClassName(response) = "kucoin"
  /\ Len(response.bids.items) = 2 /\ Len(response.asks.items) = 2
  /\ DictGet(orderbook_bids, last.id) = <<Str(1), Str(2)>>
  /\ DictGet(orderbook_asks, last.id) = <<Str(5), Str(6)>>

\* C11: an exchange name get_orderbook_url does not know is accepted by add
\* and rejected by get_orderbook_url: after add(E, P) with such a name the key
\* is in both tables and add did not raise, and get_orderbook_url(E, P) raises
\* an error whose message names E instead of returning a string.
C11_RejectedAtUrl ==
  /\ (last.op = "add" /\ last.id[1] \notin Supported) => (~last.raised /\ Tracked(last.id))
  /\ (last.op = "url" /\ last.id[1] \notin Supported) => (last.raised /\ last.kind = last.id[1])

\* C11 witness: get_orderbook_url("ftx", P) has just raised naming "ftx"
\* while the key of ("ftx", P) is tracked.
C11_Witness ==
  /\ last.op = "url" /\ last.id[1] = "ftx" /\ last.raised /\ last.kind = "ftx"
  /\ Tracked(MkId(last.id[1], last.id[2]))

\* The timer threads that are inside _update past the running test: waiting
\* for the fetch or in the for loop
Active == {t \in Threads : pc[t] \in {"fetch", "for"}}

\* C12: at most one refresh cycle is active at any time, whatever the
\* sequence of start() and stop() calls: no two executions of _update that
\* passed the running test are in progress together.
C12_OneActiveCycle == Cardinality(Active) <= 1

\* C13: after one key's response has been processed, the key's bid entry and
\* ask entry have changed together: both hold what that response gives
\* (element 0 of its bid list and of its ask list), or both are (None, None)
\* as they were when the pair was added or reset; never one written and the
\* other not, whatever the response.
C13_BothOrNeither ==
  last.op = "for" =>
    LET b == DictGet(orderbook_bids, last.id)
        a == DictGet(orderbook_asks, last.id)
    IN \/ b = NoneNone /\ a = NoneNone
       \/ /\ HasTop(response.bids) /\ HasTop(response.asks)
          /\ b = TopOf(response, response.bids)
          /\ a = TopOf(response, response.asks)

\* C14: when the batch fetch of a cycle raises, both tables are cleared
\* entirely: right after that step the bid table and the ask table are empty.
C14_ClearedOnFetchFailure ==
  (last.op = "fetch" /\ last.raised) =>
    (orderbook_bids = EmptyDict /\ orderbook_asks = EmptyDict)

\* C15: the signatures are tested in the order okx, kucoin, binance, bybit,
\* gateio, kraken, and a body that has the fields of two signatures of which
\* one strictly contains the other is handled by the branch of the larger
\* one: a body with code, msg, data and ts goes through the okx branch, whose
\* success code is "0", never through the kucoin branch.
C15_LargerSignatureWins ==
  /\ [i \in 1..Len(Signatures) |-> Signatures[i].name] =
       <<"okx", "kucoin", "binance", "bybit", "gateio", "kraken">>
  /\ \A i, j \in 1..Len(Signatures) :
       ( /\ Signatures[j].keys \subseteq Signatures[i].keys
         /\ Signatures[j].keys # Signatures[i].keys
         /\ ~response.null
         /\ Matches(response, Signatures[i]) ) =>
           /\ Matches(response, Signatures[j])
           /\ ClassName(response) = Signatures[i].name
  /\ (last.op = "for" /\ ~response.null /\ OkxKeys \subseteq response.keys) =>
       /\ last.kind = IF response.code = "0" THEN "success" ELSE "error"
       /\ (response.code = "0" /\ HasTop(response.bids) /\ HasTop(response.asks)) =>
            /\ DictGet(orderbook_bids, last.id) = <<float(Top(response.bids)[1]), float(Top(response.bids)[2])>>
            /\ DictGet(orderbook_asks, last.id) = <<float(Top(response.asks)[1]), float(Top(response.asks)[2])>>

\* C15 witness: a body with the keys code, msg, data, ts and code "0" has
\* been handled, and the entries are the floats the okx branch stores.
C15_Witness ==
  /\ last.op = "for" /\ ~response.null /\ response.keys = OkxKeys /\ response.code = "0"
  /\ last.kind = "success"
  /\ DictGet(orderbook_bids, last.id) = <<Float(1), Float(2)>>
  /\ DictGet(orderbook_asks, last.id) = <<Float(5), Float(6)>>

\* C16: a step of the for loop for a response that matches okx, kucoin or
\* bybit and whose code is not the success value ("0", "200000", 0) leaves
\* the bid entry and the ask entry of the key, and the rest of both tables,
\* exactly as they were.
C16_ErrorCodeKeeps ==
  [][(last'.op = "for" /\ last'.kind = "error") =>
       /\ orderbook_bids' = orderbook_bids
       /\ orderbook_asks' = orderbook_asks
       /\ bids_order' = bids_order]_vars

\* C16 witness: an error-code response has just been handled for a key that
\* held a price, and the key still holds one.
C16_Witness ==
  /\ last.op = "for" /\ last.kind = "error" /\ last.had
  /\ DictGet(orderbook_bids, last.id) # NoneNone
  /\ DictGet(orderbook_asks, last.id) # NoneNone

\* C17: a step of the for loop for a non-null response that matches none of
\* the six signatures leaves the entries of the key as they were: they are
\* not reset, and nothing else in the tables changes.
C17_UnknownKeeps ==
  [][(last'.op = "for" /\ last'.kind = "unknown") =>
       /\ orderbook_bids' = orderbook_bids
       /\ orderbook_asks' = orderbook_asks
       /\ bids_order' = bids_order]_vars

\* C17 witness: an unrecognised response has just been handled for a key
\* that held a price, and the key still holds one.
C17_Witness ==
  /\ last.op = "for" /\ last.kind = "unknown" /\ last.had
  /\ DictGet(orderbook_bids, last.id) # NoneNone
  /\ DictGet(orderbook_asks, last.id) # NoneNone

\* C18: a response that matches no signature neither raises nor ends the
\* batch: the step that handles it does not raise, and when keys of the
\* snapshot remain the same thread stays in the for loop with the same
\* snapshot and goes on with the next key; after the last key the cycle ends
\* as a normal return of _update.
C18_UnknownContinues ==
  [][(last'.op = "for" /\ last'.kind = "unknown") =>
       LET t == last'.t IN
       /\ ~last'.raised
       /\ IF idx[t] < Len(ids[t])
          THEN pc'[t] = "for" /\ ids'[t] = ids[t] /\ idx'[t] = idx[t] + 1
          ELSE pc'[t] = WhileTest(t) /\ ids'[t] = << >>]_vars

\* C18 witness: the first of two keys of a snapshot has just had an
\* unrecognised response, and the thread is in the loop at the second key.
C18_Witness ==
  /\ last.op = "for" /\ last.kind = "unknown" /\ ~last.raised
  /\ pc[last.t] = "for" /\ Len(ids[last.t]) = 2 /\ idx[last.t] = 2
  /\ ids[last.t][1] = last.id /\ ids[last.t][2] # last.id

\* C19: _populate_symbol_mappings is called at most once per key, over any
\* sequence of add, delete, stop, start and refresh cycles.
C19_AtMostOncePerKey == \A id \in DOMAIN lookups : lookups[id] <= 1

\* C19 amended: the lookup of a key is made only by an add of that key while
\* it is not tracked, once per such add: an add of a tracked key makes none,
\* and neither does a forced re-initialisation on a null response, a delete,
\* a stop, a start or any other step of a cycle.
C19_LookupOnNewAdd ==
  [][\A id \in DOMAIN lookups :
       lookups'[id] # lookups[id] =>
         /\ last'.op = "add" /\ last'.id = id /\ last'.kind = "new"
         /\ ~Tracked(id)
         /\ lookups'[id] = lookups[id] + 1]_vars

\* C19 witness: a key that has been looked up twice, by two adds with a
\* delete or a stop between them, has just been re-initialised on a null
\* response, and the count is still two.
C19_Witness ==
  /\ last.op = "for" /\ last.kind = "null" /\ last.id \in DOMAIN lookups
  /\ lookups[last.id] = 2 /\ Tracked(last.id)

\* A key whose exchange get_orderbook_url does not know is in the bid table
UnsupportedTracked == \E i \in 1..Len(bids_order) : bids_order[i][1] \notin Supported

TimerOps == {"update", "fetch", "for"}

\* C20: while a key with an unsupported exchange is tracked, no step of a
\* refresh cycle writes: every step a timer thread takes while such a key is
\* and stays tracked leaves both tables as they were.
C20_FrozenWhileTracked ==
  [][(UnsupportedTracked /\ UnsupportedTracked' /\ last'.op \in TimerOps) =>
       (orderbook_bids' = orderbook_bids /\ orderbook_asks' = orderbook_asks)]_vars

\* C20 amended: a cycle that passes the running test while a key with an
\* unsupported exchange is tracked raises while building the urls: no fetch
\* is dispatched, no snapshot is kept, both tables are left as they were and
\* the timer thread goes back to its while test. While such a key is tracked
\* the only timer steps that write are those of a cycle whose fetch was
\* dispatched before.
C20_AbortsAtUrl ==
  [][/\ (last'.op = "update" /\ running /\ UnsupportedTracked) =>
          /\ last'.raised /\ last'.kind = "url"
          /\ pc'[last'.t] = WhileTest(last'.t)
          /\ ids' = ids /\ idx' = idx
          /\ orderbook_bids' = orderbook_bids /\ orderbook_asks' = orderbook_asks
     /\ ( /\ UnsupportedTracked /\ last'.op \in TimerOps
          /\ (orderbook_bids' # orderbook_bids \/ orderbook_asks' # orderbook_asks) ) =>
            pc[last'.t] \in {"fetch", "for"}]_vars

\* C20 witness: a cycle has just raised while building the urls, with an
\* unsupported key tracked beside a key that holds a price; the thread is
\* back in its sleep.
C20_Witness ==
  /\ last.op = "update" /\ last.kind = "url" /\ last.raised
  /\ UnsupportedTracked /\ pc[last.t] = "sleep"
  /\ \E id \in AllIds : id[1] \in Supported /\ Tracked(id) /\ Populated(id)

\* C21: a step of the for loop of a cycle handles the key at its position in
\* the snapshot the cycle took before its fetch, with the response fetched
\* from the url built for that key, and writes to no other key: a key that
\* is not in the snapshot (added while the cycle is in flight) is left as it
\* is, and an add or a delete made meanwhile does not move a response to
\* another key.
C21_SnapshotPairing ==
  [][(last'.op = "for") =>
       LET t == last'.t IN
       /\ idx[t] \in 1..Len(ids[t]) /\ Len(urls[t]) = Len(ids[t])
       /\ last'.id = ids[t][idx[t]]
       /\ KeyOfUrl(urls[t][idx[t]]) = last'.id
       /\ \A k \in AllIds \ {last'.id} :
            /\ (k \in DOMAIN orderbook_bids') = (k \in DOMAIN orderbook_bids)
            /\ (k \in DOMAIN orderbook_asks') = (k \in DOMAIN orderbook_asks)
            /\ DictGet(orderbook_bids', k) = DictGet(orderbook_bids, k)
            /\ DictGet(orderbook_asks', k) = DictGet(orderbook_asks, k)]_vars

\* C21 witness: the first key of a two-key snapshot was deleted while the
\* cycle was in flight, so the bid table now starts with another key; the
\* loop has just stored a response for position 1 under the snapshot's first
\* key and is going on to position 2.
C21_Witness ==
  /\ last.op = "for" /\ last.kind = "success" /\ ~last.raised
  /\ pc[last.t] = "for" /\ Len(ids[last.t]) = 2 /\ idx[last.t] = 2
  /\ ids[last.t][1] = last.id /\ KeyOfUrl(urls[last.t][1]) = last.id
  /\ bids_order[1] # last.id
  /\ Populated(last.id)

====
